---- MODULE Spec2Model ----
(***************************************************************************)
(* Model of the acquisition loop of kl (src/src/main.rs): the device is    *)
(* read record by record, each record decoded into an InputEvent, key      *)
(* events classified, the shift counter updated and the translated text    *)
(* appended to the log file.                                               *)
(*                                                                         *)
(* The module `input` (is_key_event, is_key_press, is_key_release,         *)
(* is_shift, get_key_text, InputEvent) is not among the sources; its       *)
(* operators are modelled from the specification, sections 3, 4.2 - 4.4.   *)
(***************************************************************************)
EXTENDS Integers, Sequences, FiniteSets, TLC

(***************************************************************************)
(* Bounds of the model.                                                    *)
(***************************************************************************)
\* number of whole records the device delivers before it blocks for good
MaxRecords == 4
\* number of shift presses the loop is made to process in a row
MaxPresses == 256
\* largest scancode handed to the translator on its own (besides 65535)
MaxCode == 60
\* length of a short delivery of the device (spec section 8: "only 10 bytes")
ShortRead == 10

(***************************************************************************)
(* Program constants.                                                      *)
(***************************************************************************)
\* main.rs:40, main.rs:72, mem::size_of::<InputEvent>() of main.rs:81
RecordSize == 24
\* the width of the shift counter, a u8 (main.rs:74)
U8Modulus == 256
\* the key-event category and the scancodes of module input (Linux evdev)
EV_KEY == 1
KEY_ESC == 1
KEY_1 == 2
KEY_ENTER == 28
KEY_LEFTSHIFT == 42
KEY_RIGHTSHIFT == 54

Min(a, b) == IF a < b THEN a ELSE b

(***************************************************************************)
(* Texts are sequences of one-byte characters.                             *)
(***************************************************************************)
\* the keycode table of module input: scancode -> <<unshifted, shifted>>
KeycodeTable ==
    (KEY_1 :> << <<"1">>, <<"!">> >>) @@
    (KEY_ENTER :> << <<"\\", "n">>, <<"\\", "n">> >>)

\* get_key_text looking at the unshifted column only
get_key_text_unshifted(code, shift) ==
    IF code \in DOMAIN KeycodeTable THEN KeycodeTable[code][1] ELSE << >>

\* input::get_key_text(code, shift_pressed)
get_key_text(code, shift) ==
    IF code \in DOMAIN KeycodeTable
    THEN IF shift > 0 THEN KeycodeTable[code][2] ELSE KeycodeTable[code][1]
    ELSE << >>

\* input::is_key_event, is_key_press, is_key_release, is_shift
is_key_event(type) == type = EV_KEY
is_key_press(value) == value = 1
is_key_release(value) == value = 0
is_shift(code) == code = KEY_LEFTSHIFT \/ code = KEY_RIGHTSHIFT

(***************************************************************************)
(* Little-endian decoding, as {isize,u16,i32}::from_le_bytes compute it.   *)
(***************************************************************************)
RECURSIVE from_le_bytes_unsigned(_)
from_le_bytes_unsigned(b) ==
    IF b = << >> THEN 0 ELSE Head(b) + 256 * from_le_bytes_unsigned(Tail(b))

RECURSIVE from_le_bytes_signed(_)
from_le_bytes_signed(b) ==
    IF Len(b) = 1
    THEN IF Head(b) >= 128 THEN Head(b) - 256 ELSE Head(b)
    ELSE Head(b) + 256 * from_le_bytes_signed(Tail(b))

\* read_input_event with the value taken from two bytes only
decode_short_value(buffer) ==
    [tv_sec  |-> from_le_bytes_signed(SubSeq(buffer, 1, 8)),
     tv_usec |-> from_le_bytes_signed(SubSeq(buffer, 9, 16)),
     type_   |-> from_le_bytes_unsigned(SubSeq(buffer, 17, 18)),
     code    |-> from_le_bytes_unsigned(SubSeq(buffer, 19, 20)),
     value   |-> from_le_bytes_signed(SubSeq(buffer, 21, 22))]

\* read_input_event, lines 42-53: the fields at their fixed offsets
decode(buffer) ==
    [tv_sec  |-> from_le_bytes_signed(SubSeq(buffer, 1, 8)),
     tv_usec |-> from_le_bytes_signed(SubSeq(buffer, 9, 16)),
     type_   |-> from_le_bytes_unsigned(SubSeq(buffer, 17, 18)),
     code    |-> from_le_bytes_unsigned(SubSeq(buffer, 19, 20)),
     value   |-> from_le_bytes_signed(SubSeq(buffer, 21, 24))]

(***************************************************************************)
(* The device: the records the kernel produces, in the layout of           *)
(* struct input_event (little-endian, no padding).                         *)
(***************************************************************************)
RECURSIVE to_le_bytes(_, _)
to_le_bytes(n, width) ==
    IF width = 0 THEN << >>
    ELSE <<n % 256>> \o to_le_bytes(n \div 256, width - 1)

DeviceRecord(sec, usec, type, code, value) ==
    to_le_bytes(sec, 8) \o to_le_bytes(usec, 8) \o to_le_bytes(type, 2)
        \o to_le_bytes(code, 2) \o to_le_bytes(value, 4)

\* the <<type, code, value>> of the records the device delivers: presses,
\* releases and autorepeats of mapped, unmapped and shift keys, and events
\* of another category that carry a shift scancode
DeviceInputs ==
    ({EV_KEY} \X {KEY_1, KEY_LEFTSHIFT} \X {0, 1, 2})
        \cup ({EV_KEY} \X {KEY_RIGHTSHIFT} \X {0, 1})
        \cup ({EV_KEY} \X {KEY_ENTER, KEY_ESC} \X {0, 1})
        \cup ({0} \X {KEY_LEFTSHIFT} \X {0, 1})

DeviceRecords == {DeviceRecord(0, 0, i[1], i[2], i[3]) : i \in DeviceInputs}

\* the <<seconds, microseconds>> and the <<type, code, value>> of the
\* records of a device whose timestamps vary
DeviceStamps == {<<0, 0>>, <<1, 1>>, <<-1, 999999>>}
StampedInputs ==
    {<<EV_KEY, KEY_1, 1>>, <<EV_KEY, KEY_LEFTSHIFT, 1>>,
     <<EV_KEY, KEY_LEFTSHIFT, 0>>, <<0, KEY_LEFTSHIFT, 1>>}

\* the devices the loop is run against, by name
RecordsOf(device) ==
    CASE device = "keyboard" -> DeviceRecords
      [] device = "stamped keyboard" ->
            {DeviceRecord(t[1], t[2], i[1], i[2], i[3]) :
                t \in DeviceStamps, i \in StampedInputs}
      [] device = "left shift presses" ->
            {DeviceRecord(0, 0, EV_KEY, KEY_LEFTSHIFT, 1)}
      [] OTHER -> {}

(***************************************************************************)
(* State.                                                                  *)
(***************************************************************************)
VARIABLES
    overflow_checks, \* the build panics on integer overflow (debug) or wraps (release)
    panic_message,   \* what the panic reported, "" while there is none
    pc,              \* position of main: "read" (line 78), "read_exact" (line 41,
                     \* called from line 84), "classify" (line 85), "panicked"
    shift_pressed,   \* main.rs:76, a u8
    buf,             \* main.rs:72
    buffer,          \* read_input_event's buffer (line 40): the bytes filled so
                     \* far, empty outside the call
    event,           \* main.rs:84: the event decoded last, NoEvent before the first
    log,             \* the bytes this process has appended to the log file
    dev_pending,     \* device: the undelivered rest of the record being delivered
    dev_records,     \* device: which records it can produce, a name of
                     \* RecordsOf (fixed during a run)
    dev_limit,       \* device: the number of records it delivers before it
                     \* blocks for good (fixed during a run)
    \* history variables (no action reads them but to bound the model):
    stream,          \* the whole records taken from the device so far, decoded
    n_classified     \* events that reached the classification of line 85

vars == <<overflow_checks, panic_message, pc, shift_pressed, buf, buffer, event, log, dev_pending,
          dev_records, dev_limit, stream, n_classified>>

Zeroes == [i \in 1..RecordSize |-> 0]
NoEvent == [tv_sec |-> 0, tv_usec |-> 0, type_ |-> 0, code |-> 0, value |-> 0]

\* the state at line 77, in front of a device that delivers up to `limit`
\* records out of `records`
Start(records, limit) ==
    /\ overflow_checks \in BOOLEAN
    /\ pc = "read"
    /\ panic_message = ""
    /\ shift_pressed = 0
    /\ buf = Zeroes
    /\ buffer = << >>
    /\ event = NoEvent
    /\ log = << >>
    /\ dev_pending = << >>
    /\ dev_records = records
    /\ dev_limit = limit
    /\ stream = << >>
    /\ n_classified = 0

Init == Start("keyboard", MaxRecords)

(***************************************************************************)
(* The device handle.  A read of up to `want` bytes delivers a chunk: the  *)
(* whole of what is asked, a short chunk, or nothing (end of file).        *)
(***************************************************************************)
YieldSizes == {0, ShortRead, RecordSize}

\* the records the device may start delivering now
Fresh == IF Len(stream) < dev_limit THEN RecordsOf(dev_records) ELSE {}

\* the pairs <<chunk delivered, rest left pending>> of a read of `want` bytes
Deliveries(want) ==
    LET Cut(r, n) == <<SubSeq(r, 1, n), SubSeq(r, n + 1, Len(r))>>
    IN IF dev_pending # << >>
       THEN {Cut(dev_pending, Min(Min(c, want), Len(dev_pending))) : c \in YieldSizes}
       ELSE {Cut(r, Min(c, want)) : r \in Fresh, c \in YieldSizes}
            \cup {<< << >>, << >> >>}

(***************************************************************************)
(* The acquisition loop, main.rs:77-103.                                   *)
(***************************************************************************)
Panic(message) ==
    /\ pc' = "panicked"
    /\ panic_message' = message

\* line 81: the size test on the first read
wrong_size(num_bytes) == num_bytes # RecordSize

\* lines 78-83: read into buf; an error or a count other than 24 panics,
\* otherwise main goes on to read_input_event
Read ==
    /\ pc = "read"
    /\ \/ \* Err(e): unwrap_or_else panics
          /\ Panic("io error")
          /\ UNCHANGED <<buf, buffer, dev_pending, stream>>
       \/ \E d \in Deliveries(RecordSize) :
            LET num_bytes == Len(d[1]) IN
            /\ buf' = d[1] \o SubSeq(buf, num_bytes + 1, RecordSize)
            /\ dev_pending' = d[2]
            /\ IF wrong_size(num_bytes)
               THEN /\ Panic("Error while reading from device file")
                    /\ UNCHANGED <<buffer, stream>>
               ELSE /\ pc' = "read_exact"
                    /\ panic_message' = panic_message
                    /\ buffer' = << >>
                    /\ stream' = Append(stream, decode(d[1]))
    /\ UNCHANGED <<overflow_checks, shift_pressed, event, log, n_classified,
                   dev_records, dev_limit>>

\* line 84 with lines 39-54: read_exact reads until its 24-byte buffer is
\* full; an error or the end of the file before that is Err, which unwrap
\* turns into a panic.  A full buffer is decoded into event.
ReadExact ==
    /\ pc = "read_exact"
    /\ \/ \* Err(e) of the underlying read
          /\ Panic("io error")
          /\ UNCHANGED <<buffer, event, dev_pending, stream>>
       \/ \E d \in Deliveries(RecordSize - Len(buffer)) :
            /\ dev_pending' = d[2]
            /\ IF d[1] = << >>
               THEN \* Ok(0): ErrorKind::UnexpectedEof
                    /\ Panic("failed to fill whole buffer")
                    /\ UNCHANGED <<buffer, event, stream>>
               ELSE IF Len(buffer \o d[1]) < RecordSize
               THEN /\ UNCHANGED <<pc, panic_message>>
                    /\ buffer' = buffer \o d[1]
                    /\ UNCHANGED <<event, stream>>
               ELSE /\ pc' = "classify"
                    /\ panic_message' = panic_message
                    /\ buffer' = << >>
                    /\ event' = decode(buffer \o d[1])
                    /\ stream' = Append(stream, decode(buffer \o d[1]))
    /\ UNCHANGED <<overflow_checks, shift_pressed, buf, log, n_classified,
                   dev_records, dev_limit>>

\* lines 98-100 without the test of line 98: any release decrements
on_release_any_key(count, code) == count - 1

\* lines 87-89 and 98-100: the arithmetic on the counter, before its width
\* is taken into account
on_press(count, code) == IF is_shift(code) THEN count + 1 ELSE count
on_release(count, code) == IF is_shift(code) THEN count - 1 ELSE count

\* a u8 result out of range: the build either panics or wraps
Overflows(n) == n < 0 \/ n >= U8Modulus
Wrapped(n) == n % U8Modulus

\* line 94 left out: the count the log file reports is not looked at
short_write_unchecked(num_bytes, text) == FALSE

\* line 94 taking a count of 0 for a failure as well
short_write_or_nothing(num_bytes, text) == num_bytes # Len(text) \/ num_bytes = 0

\* line 94: the test on the count the log file reports
short_write(num_bytes, text) == num_bytes # Len(text)

\* the end of the loop body: back to line 78
Continue ==
    /\ pc' = "read"
    /\ panic_message' = panic_message

\* lines 91-96: write appends the bytes it accepts and reports their number
WriteText(text) ==
    \/ \* Err(e): unwrap_or_else panics
       /\ Panic("io error")
       /\ log' = log
    \/ \E num_bytes \in 0..Len(text) :
         /\ log' = log \o SubSeq(text, 1, num_bytes)
         /\ IF short_write(num_bytes, text)
            THEN Panic("Error while writing to log file")
            ELSE Continue

\* line 97 as a plain `else`: whatever is not a press counts as a release
branch_else_release(e) ==
    IF is_key_event(e.type_)
    THEN IF is_key_press(e.value) THEN "press" ELSE "release"
    ELSE "none"

\* lines 86 and 97 without the test of line 85: events of any category
branch_any_type(e) ==
    IF is_key_press(e.value) THEN "press"
    ELSE IF is_key_release(e.value) THEN "release"
    ELSE "none"

\* lines 86 and 97 testing the microseconds where the value is meant
branch_on_usec(e) ==
    IF is_key_event(e.type_)
    THEN IF is_key_press(e.tv_usec) THEN "press"
         ELSE IF is_key_release(e.tv_usec) THEN "release"
         ELSE "none"
    ELSE "none"

\* the tests of lines 85, 86 and 97: the branch of the loop body taken
branch(e) ==
    IF is_key_event(e.type_)
    THEN IF is_key_press(e.value) THEN "press"
         ELSE IF is_key_release(e.value) THEN "release"
         ELSE "none"
    ELSE "none"

\* lines 85-102
Classify ==
    /\ pc = "classify"
    /\ n_classified' = n_classified + 1
    /\ CASE branch(event) = "press" ->
              LET count == on_press(shift_pressed, event.code) IN
              IF Overflows(count) /\ overflow_checks
              THEN /\ Panic("attempt to add with overflow")
                   /\ UNCHANGED <<shift_pressed, log>>
              ELSE /\ shift_pressed' = Wrapped(count)
                   /\ WriteText(get_key_text(event.code, Wrapped(count)))
         [] branch(event) = "release" ->
              LET count == on_release(shift_pressed, event.code) IN
              IF Overflows(count) /\ overflow_checks
              THEN /\ Panic("attempt to subtract with overflow")
                   /\ UNCHANGED <<shift_pressed, log>>
              ELSE /\ shift_pressed' = Wrapped(count)
                   /\ Continue
                   /\ log' = log
         [] OTHER ->
              /\ Continue
              /\ UNCHANGED <<shift_pressed, log>>
    /\ UNCHANGED <<overflow_checks, buf, buffer, event, dev_pending, stream,
                   dev_records, dev_limit>>

Next == Read \/ ReadExact \/ Classify

Spec == Init /\ [][Next]_vars

TypeOK ==
    /\ pc \in {"read", "read_exact", "classify", "panicked"}
    /\ shift_pressed \in 0..(U8Modulus - 1)
    /\ Len(buf) = RecordSize
    /\ Len(buffer) <= RecordSize

(***************************************************************************)
(* Properties.                                                             *)
(***************************************************************************)
IsPress(e) == is_key_event(e.type_) /\ is_key_press(e.value)
IsRelease(e) == is_key_event(e.type_) /\ is_key_release(e.value)

Front(s) == SubSeq(s, 1, Len(s) - 1)
Last(s) == s[Len(s)]

\* the Modifier Tracker of spec 4.3 after the events s
RECURSIVE TrackerAfter(_)
TrackerAfter(s) ==
    IF s = << >> THEN 0
    ELSE LET m == TrackerAfter(Front(s))
             e == Last(s)
         IN IF IsPress(e) /\ is_shift(e.code) THEN m + 1
            ELSE IF IsRelease(e) /\ is_shift(e.code) THEN (IF m > 0 THEN m - 1 ELSE 0)
            ELSE m

\* the text of the key presses of s, each translated with the tracker's
\* state at that press
RECURSIVE TextOf(_)
TextOf(s) ==
    IF s = << >> THEN << >>
    ELSE IF IsPress(Last(s))
         THEN TextOf(Front(s)) \o get_key_text(Last(s).code, TrackerAfter(s))
         ELSE TextOf(Front(s))

\* the keys pressed and not yet released after the events s
RECURSIVE Down(_)
Down(s) ==
    IF s = << >> THEN {}
    ELSE IF IsPress(Last(s)) THEN Down(Front(s)) \cup {Last(s).code}
    ELSE IF IsRelease(Last(s)) THEN Down(Front(s)) \ {Last(s).code}
    ELSE Down(Front(s))

\* per key, presses and releases alternate starting with a press, and
\* autorepeat comes only while the key is down
RECURSIVE WellFormed(_)
WellFormed(s) ==
    \/ s = << >>
    \/ /\ WellFormed(Front(s))
       /\ is_key_event(Last(s).type_) =>
             IF is_key_press(Last(s).value)
             THEN Last(s).code \notin Down(Front(s))
             ELSE Last(s).code \in Down(Front(s))

\* the presses and releases of shift keys among s, as <<code, value>>
ShiftEvents(s) ==
    LET sel == SelectSeq(s, LAMBDA e : (IsPress(e) \/ IsRelease(e)) /\ is_shift(e.code))
    IN [i \in 1..Len(sel) |-> <<sel[i].code, sel[i].value>>]

ShiftsDown == Cardinality({c \in Down(stream) : is_shift(c)})

\* the step is the processing of the decoded event (lines 85-102)
Classifying == pc = "classify" /\ n_classified' = n_classified + 1

\* C1: the shift counter is never negative, and a shift release processed
\* while the counter is 0 leaves it at 0 without ending the loop
C1_ReleaseAtZeroStaysZero ==
    /\ [](shift_pressed >= 0)
    /\ [][(Classifying /\ IsRelease(event) /\ is_shift(event.code)
              /\ shift_pressed = 0)
            => (shift_pressed' = 0 /\ pc' = "read")]_vars

\* C2: every record taken from the device is decoded and classified, once
\* and in order: the event classified is the decode of the record read at
\* the top of the iteration, and at the top of the loop as many events have
\* been classified as records were taken
C2_EveryRecordClassified ==
    /\ pc = "classify" => event = decode(buf)
    /\ pc = "read" => n_classified = Len(stream)

\* C3: with every write accepted in full, the log is the concatenation, in
\* stream order, of the translations of all the key presses of the stream
C3_LogIsAllPresses ==
    pc = "read" => log = TextOf(stream)

\* C4: over a well-formed stream, after each record is processed the shift
\* counter is the number of shift keys that are down
C4_CounterIsShiftsDown ==
    (pc = "read" /\ WellFormed(stream)) => shift_pressed = ShiftsDown

LeftPress == <<KEY_LEFTSHIFT, 1>>
RightPress == <<KEY_RIGHTSHIFT, 1>>
LeftRelease == <<KEY_LEFTSHIFT, 0>>
RightRelease == <<KEY_RIGHTSHIFT, 0>>

\* C5: after press left-shift, press right-shift, release left-shift the
\* counter is 1 until the right-shift release is processed, and 0 after it
C5_SecondShiftKeepsShifted ==
    pc = "read" =>
        /\ ShiftEvents(stream) = <<LeftPress, RightPress, LeftRelease>>
              => shift_pressed = 1
        /\ ShiftEvents(stream) = <<LeftPress, RightPress, LeftRelease, RightRelease>>
              => shift_pressed = 0

\* C6: a press of a non-shift key appends the key's shifted text if a shift
\* key has been pressed and not yet released, and its unshifted text if not
C6_ShiftedIffShiftHeld ==
    [][(Classifying /\ IsPress(event) /\ ~is_shift(event.code) /\ pc' = "read")
         => log' = log \o get_key_text(event.code, ShiftsDown)]_vars

\* C7: processing an autorepeat key event (value 2), of any scancode and in
\* any state, changes neither the shift counter nor the log and does not
\* end the loop
C7_AutorepeatIsInert ==
    [][(Classifying /\ is_key_event(event.type_) /\ event.value = 2)
         => (shift_pressed' = shift_pressed /\ log' = log /\ pc' = "read")]_vars

\* the autorepeat of a shift key has been processed after a key's text
\* was logged, and the loop is back at its top
C7_Witness ==
    /\ pc = "read"
    /\ n_classified = 2
    /\ is_key_event(event.type_) /\ event.value = 2 /\ is_shift(event.code)
    /\ shift_pressed = 0
    /\ log = <<"1">>

\* the device has delivered only a part of what remains of a record
ShortDelivery == dev_pending' # dev_pending /\ dev_pending' # << >>

\* C8: a delivery of fewer than 24 bytes for a record ends the loop in that
\* iteration: the first read panics on it, no event is made of bytes that
\* came in a short delivery, the log and the counter stay as they are and
\* no further record is taken
C8_ShortReadIsFatal ==
    [][/\ (pc = "read" /\ ShortDelivery)
            => (pc' = "panicked" /\ stream' = stream)
       /\ (pc = "read_exact" /\ buffer # << >>)
            => (pc' # "classify" /\ stream' = stream)
       /\ (ShortDelivery \/ buffer # << >>)
            => (log' = log /\ shift_pressed' = shift_pressed)]_vars

\* the text the press being processed hands to the log file
PressText == get_key_text(event.code, Wrapped(on_press(shift_pressed, event.code)))

\* C9: when the log file accepts fewer bytes than the text of a key press,
\* the loop ends at once: the write is not retried, the remaining bytes are
\* never written and no further record is read or processed
C9_ShortWriteIsFatal ==
    [][/\ (Classifying /\ IsPress(event) /\ Len(log') - Len(log) < Len(PressText))
            => pc' = "panicked"
       /\ pc = "panicked"
            => UNCHANGED <<pc, log, shift_pressed, stream, n_classified,
                           dev_pending>>]_vars

\* the log file took one of the two bytes of the text of Enter
C9_Witness ==
    /\ pc = "panicked"
    /\ panic_message = "Error while writing to log file"
    /\ event.code = KEY_ENTER
    /\ log = <<"\\">>

\* C10: a release never appends to the log; so the stream [press k,
\* release k] of a non-shift key k, processed from counter 0, appends the
\* unshifted text of k once, and the loop goes on after the release
C10_PressReleaseEmitsOnce ==
    /\ [][(Classifying /\ IsRelease(event)) => log' = log]_vars
    /\ []((/\ pc = "read" /\ Len(stream) = 2
           /\ IsPress(stream[1]) /\ ~is_shift(stream[1].code)
           /\ IsRelease(stream[2]) /\ stream[2].code = stream[1].code)
            => log = get_key_text(stream[1].code, 0))

\* the panics that a failing device or log file causes
EnvironmentFaults ==
    {"io error", "Error while reading from device file",
     "failed to fill whole buffer", "Error while writing to log file"}

\* C11: with a device that yields whole records and a log file that accepts
\* every write in full the loop never terminates, whatever the events are:
\* every panic is one that the device or the log file caused
C11_NoTerminalState ==
    pc = "panicked" => panic_message \in EnvironmentFaults

\* C12: processing an event whose type is not the key-event category
\* changes neither the shift counter nor the log, whatever its code and value
C12_OtherTypesAreInert ==
    [][(Classifying /\ ~is_key_event(event.type_))
         => (shift_pressed' = shift_pressed /\ log' = log /\ pc' = "read")]_vars

\* an event of another category, with the left-shift scancode and value 0,
\* has been processed while the counter was 1
C12_Witness ==
    /\ pc = "read"
    /\ n_classified = 2
    /\ event.type_ # EV_KEY /\ event.code = KEY_LEFTSHIFT /\ event.value = 0
    /\ shift_pressed = 1

\* C13: processing a key event (press, release or autorepeat) of a scancode
\* that is neither shift key leaves the shift counter unchanged
C13_OtherKeysKeepCounter ==
    [][(Classifying /\ is_key_event(event.type_) /\ ~is_shift(event.code))
         => shift_pressed' = shift_pressed]_vars

\* the release of key '1' has been processed while the counter was 1
C13_Witness ==
    /\ pc = "read"
    /\ n_classified = 2
    /\ IsRelease(event) /\ event.code = KEY_1
    /\ shift_pressed = 1

ValueBytes ==
    {<<a, b, c, d>> : a \in {0, 1, 255}, b \in {0, 1, 255}, c \in {0, 255},
                      d \in {0, 127, 128, 255}}

\* the 2-byte patterns of the type and code fields
ShortBytes == {<<a, b>> : a \in {0, 1, 255}, b \in {0, 1, 255}}

\* the 8-byte patterns of the timestamps: 32-bit patterns, sign-extended
\* (the model checker's integers have 32 bits)
StampBytes ==
    {w \o (IF w[4] >= 128 THEN <<255, 255, 255, 255>> ELSE <<0, 0, 0, 0>>) :
        w \in {<<0, 0, 0, 0>>, <<1, 2, 3, 4>>, <<255, 255, 255, 127>>,
               <<0, 0, 0, 128>>, <<255, 255, 255, 255>>}}

\* read_exact has filled the buffer of line 40 with the bytes under test
InitDecode ==
    /\ overflow_checks = FALSE
    /\ pc = "read_exact"
    /\ panic_message = ""
    /\ shift_pressed = 0
    /\ buf = Zeroes
    /\ buffer \in {s \o u \o t \o c \o v :
                        s \in StampBytes, u \in StampBytes,
                        t \in ShortBytes, c \in ShortBytes, v \in ValueBytes}
    /\ event = NoEvent
    /\ log = << >>
    /\ dev_pending = << >>
    /\ dev_records = "none"
    /\ dev_limit = 0
    /\ stream = << >>
    /\ n_classified = 0

\* lines 42-53: the buffer is decoded and the event returned to line 84
DecodeBuffer ==
    /\ pc = "read_exact"
    /\ Len(buffer) = RecordSize
    /\ event' = decode(buffer)
    /\ pc' = "classify"
    /\ UNCHANGED <<overflow_checks, panic_message, shift_pressed, buf, buffer, log,
                   dev_pending, dev_records, dev_limit, stream, n_classified>>

NextDecode == DecodeBuffer

SpecDecode == InitDecode /\ [][NextDecode]_vars

\* C14: the decoder yields seconds from bytes 0..8, microseconds from bytes
\* 8..16, type from bytes 16..18, code from bytes 18..20 and value from
\* bytes 20..24, each little-endian, and encoding the decoded fields in that
\* layout gives the original 24 bytes back
C14_DecodeRoundTrip ==
    pc = "classify" =>
        /\ to_le_bytes(event.tv_sec, 8) = SubSeq(buffer, 1, 8)
        /\ to_le_bytes(event.tv_usec, 8) = SubSeq(buffer, 9, 16)
        /\ to_le_bytes(event.type_, 2) = SubSeq(buffer, 17, 18)
        /\ to_le_bytes(event.code, 2) = SubSeq(buffer, 19, 20)
        /\ to_le_bytes(event.value, 4) = SubSeq(buffer, 21, 24)
        /\ event.type_ >= 0 /\ event.code >= 0
        /\ DeviceRecord(event.tv_sec, event.tv_usec, event.type_, event.code,
                        event.value) = buffer

\* a buffer with negative seconds, a two-byte code and the smallest i32 as
\* value has been decoded
C14_Witness ==
    /\ pc = "classify"
    /\ event.tv_sec = -1
    /\ event.tv_usec = 67305985
    /\ event.code = 65535
    /\ event.value = -2147483647 - 1

(***************************************************************************)
(* The translator as a function of the scancode and the counter: line 91   *)
(* reached with a press of every scancode at several counts.               *)
(***************************************************************************)
TestCodes == (0..MaxCode) \cup {65535}
TestCounts == {0, 1, 2, 255}

InitTranslate ==
    /\ overflow_checks \in BOOLEAN
    /\ pc = "classify"
    /\ panic_message = ""
    /\ shift_pressed \in TestCounts
    /\ buf = Zeroes
    /\ buffer = << >>
    /\ event \in {[tv_sec |-> 0, tv_usec |-> 0, type_ |-> EV_KEY, code |-> c,
                   value |-> 1] : c \in TestCodes}
    /\ log = << >>
    /\ dev_pending = << >>
    /\ dev_records = "none"
    /\ dev_limit = 0
    /\ stream = << >>
    /\ n_classified = 0

NextTranslate == Classify

SpecTranslate == InitTranslate /\ [][NextTranslate]_vars

\* C15: for a scancode, the translator's text with shifted = false differs
\* from its text with shifted = true exactly when the scancode is in the
\* keycode table with two distinct entries; for a scancode that is not in
\* the table both texts are empty.  (log holds the text of the press at the
\* counter's state, Other the text at the opposite state.)
C15_ShiftChangesMappedKeysOnly ==
    pc = "read" =>
        LET code == event.code
            Other == get_key_text(code, IF shift_pressed > 0 THEN 0 ELSE 1)
            Mapped == code \in DOMAIN KeycodeTable
        IN /\ (log # Other) <=> (Mapped /\ KeycodeTable[code][1] # KeycodeTable[code][2])
           /\ ~Mapped => (log = << >> /\ Other = << >>)

\* the press of '1' has been translated with the counter at 2
C15_Witness ==
    /\ pc = "read"
    /\ event.code = KEY_1
    /\ shift_pressed = 2
    /\ log = <<"!">>
    /\ get_key_text(event.code, 0) = <<"1">>

(***************************************************************************)
(* The loop in front of a device that delivers nothing but presses of the  *)
(* left shift key: every event it processes is a shift press, and none is  *)
(* a release.                                                              *)
(***************************************************************************)
InitPresses == Start("left shift presses", 2 * MaxPresses)

NextPresses == Read \/ ReadExact \/ Classify

SpecPresses == InitPresses /\ [][NextPresses]_vars

\* C16: on a press of a shift key the counter is incremented, once, before
\* the translator is consulted: the state after the press is the old counter
\* plus one (so shifted is true), the text handed to the log file is the
\* translation at that state, and this is so even when the write that
\* follows is the last action before a fatal error
C16_IncrementBeforeLookup ==
    [][(Classifying /\ IsPress(event) /\ is_shift(event.code))
         => /\ shift_pressed' = shift_pressed + 1
            /\ shift_pressed' > 0
            /\ \E n \in 0..Len(get_key_text(event.code, shift_pressed + 1)) :
                 log' = log \o SubSeq(get_key_text(event.code, shift_pressed + 1), 1, n)]_vars

\* C19: after n shift presses in a row, starting from counter 0, the counter
\* is n and shifted is true, for every n >= 1, also for n >= 256: the
\* counter neither wraps back to 0 nor overflows into a panic
C19_CounterNeverWraps ==
    /\ pc = "read" => /\ shift_pressed = n_classified
                      /\ n_classified >= 1 => shift_pressed > 0
    /\ panic_message # "attempt to add with overflow"

(***************************************************************************)
(* The loop in front of a device whose records differ in their timestamps. *)
(***************************************************************************)
InitStamps == Start("stamped keyboard", MaxRecords)

NextStamps == Read \/ ReadExact \/ Classify

SpecStamps == InitStamps /\ [][NextStamps]_vars

\* the event e with its timestamps erased
Erased(e) == [e EXCEPT !.tv_sec = 0, !.tv_usec = 0]

\* the events classified so far: read_input_event's share of the stream
ClassifiedEvents == [i \in 1..n_classified |-> stream[2 * i]]

\* the counter, the log and the panic of the loop body run over the events
\* s with every write accepted in full
RECURSIVE OutcomeOf(_)
OutcomeOf(s) ==
    IF s = << >> THEN [count |-> 0, text |-> << >>, panic |-> ""]
    ELSE LET r == OutcomeOf(Front(s))
             e == Last(s)
             n == IF branch(e) = "press" THEN on_press(r.count, e.code)
                  ELSE IF branch(e) = "release" THEN on_release(r.count, e.code)
                  ELSE r.count
         IN IF r.panic # "" THEN r
            ELSE IF Overflows(n) /\ overflow_checks
            THEN [r EXCEPT !.panic = IF n < 0 THEN "attempt to subtract with overflow"
                                     ELSE "attempt to add with overflow"]
            ELSE [count |-> Wrapped(n),
                  text |-> IF branch(e) = "press"
                           THEN r.text \o get_key_text(e.code, Wrapped(n))
                           ELSE r.text,
                  panic |-> ""]

ErasedOutcome == OutcomeOf([i \in 1..n_classified |-> Erased(ClassifiedEvents[i])])

\* C18: the timestamps do not influence the behaviour: the log, the counter
\* after every record and the way the loop ends are those of the run over
\* the same <<type, code, value>> with all timestamps zero
C18_TimestampsAreIgnored ==
    /\ shift_pressed = ErasedOutcome.count
    /\ pc # "panicked"
         => (ErasedOutcome.panic = "" /\ log = ErasedOutcome.text)
    /\ (pc = "panicked" /\ panic_message \notin EnvironmentFaults)
         => (ErasedOutcome.panic = panic_message /\ log = ErasedOutcome.text)
    \* a panic that the device or the log file caused: the log has what the
    \* log file accepted
    /\ (pc = "panicked" /\ panic_message \in EnvironmentFaults)
         => /\ ErasedOutcome.panic = ""
            /\ Len(log) <= Len(ErasedOutcome.text)
            /\ log = SubSeq(ErasedOutcome.text, 1, Len(log))

\* two events with different timestamps have been processed: a shift press
\* stamped <<1, 1>> and a press of '1' stamped <<-1, 999999>>
C18_Witness ==
    /\ pc = "read"
    /\ n_classified = 2
    /\ stream[2].tv_sec = 1 /\ stream[2].tv_usec = 1
    /\ event.tv_sec = -1 /\ event.tv_usec = 999999
    /\ shift_pressed = 1
    /\ log = <<"!">>

====
